---- MODULE Spec2Model ----
(***************************************************************************)
(* A model of aoctool: the `init-year`, `init`, `clear-templates` and      *)
(* `config` subcommands (src/src/main.rs) and the library functions they   *)
(* call (src/src/lib.rs), over an abstract file system.                    *)
(*                                                                         *)
(* Paths are sequences of component names.  A file's bytes are a sequence  *)
(* of tokens: a token stands for a run of bytes that the code never looks  *)
(* inside, and "\n" is the line terminator.  A parsed TOML document is a   *)
(* record (toml_edit, an external crate, keeps every untouched part of a   *)
(* document when it serialises; the record's `other` fields are those      *)
(* parts).                                                                 *)
(***************************************************************************)
EXTENDS Integers, Sequences, FiniteSets, TLC

VARIABLES
    paths,      \* the persisted configuration: year -> the three optional paths
    cfgExists,  \* whether the configuration file exists on disk
    dirs,       \* the directories of the file system (real paths)
    files,      \* the regular files of the file system: real path -> contents
    last,       \* the last command run: its arguments, its result, what it did
    nops        \* how many commands have run

vars == <<paths, cfgExists, dirs, files, last, nops>>

None == "none"
NL == "\n"

\* ---------------------------------------------------------------- bounds

\* The longest file the Line Augmenter's own specification lets grow.
MaxFileLen == 5
\* The longest initial file and the longest line of that specification.
MaxInitLen == 3
MaxLineLen == 2
\* The longest initial members array of the Manifest Editor's specification.
MaxMembers == 2
\* How many commands one run of the tool's specification issues.
MaxOps == 2

\* ---------------------------------------------------------------- paths

Root == << >>
\* The working directory of every invocation.
Cwd == <<"w">>
\* The one symbolic link of the file system: /l -> /o.
SymLink == <<"l">>
SymTarget == <<"o">>

Parent(p) == IF p = Root THEN Root ELSE SubSeq(p, 1, Len(p) - 1)

Prefixes(p) == { SubSeq(p, 1, n) : n \in 0..Len(p) }

IsPrefix(p, q) == Len(p) <= Len(q) /\ SubSeq(q, 1, Len(p)) = p

\* An Option<PathBuf> of the configuration: an absolute path, or nothing.
NoneP == [some |-> FALSE, p |-> << >>]
SomeP(p) == [some |-> TRUE, p |-> p]

\* An Option<PathBuf> of the command line: a path, absolute or relative to the
\* working directory, with "." and ".." components allowed; or nothing.
NoneRaw == [some |-> FALSE, abs |-> FALSE, comps |-> << >>]
RawPath(abs, comps) == [some |-> TRUE, abs |-> abs, comps |-> comps]

RECURSIVE LexNorm(_, _)
\* Lexical normalisation: "." dropped, ".." removes the component before it.
LexNorm(acc, rest) ==
    IF rest = << >> THEN acc
    ELSE LET c == Head(rest) IN
         IF c = "." THEN LexNorm(acc, Tail(rest))
         ELSE IF c = ".." THEN LexNorm(Parent(acc), Tail(rest))
         ELSE LexNorm(Append(acc, c), Tail(rest))

\* path_absolutize::Absolutize: no file system access, symbolic links kept.
Absolutize(raw) == LexNorm(IF raw.abs THEN Root ELSE Cwd, raw.comps)

\* Absolutize of a path that is already absolute (a configured path).
AbsolutizeAbs(p) == LexNorm(Root, p)

RECURSIVE Resolve(_, _)
\* The operating system's resolution of a path: symbolic links followed as they
\* are met, ".." taken from the resolved directory.
Resolve(acc, rest) ==
    IF rest = << >> THEN acc
    ELSE LET c == Head(rest) IN
         IF c = "." THEN Resolve(acc, Tail(rest))
         ELSE IF c = ".." THEN Resolve(Parent(acc), Tail(rest))
         ELSE LET n == Append(acc, c) IN
              Resolve(IF n = SymLink THEN SymTarget ELSE n, Tail(rest))

\* The real path a raw path names (Path::canonicalize without its existence check).
RealRaw(raw) == Resolve(IF raw.abs THEN Root ELSE Cwd, raw.comps)

\* The real path an absolute path names.
Real(p) == Resolve(Root, p)

\* `v`, evaluated once, handed to F: the `let x = v;` of a function body.
Bind(v, F(_)) == CHOOSE r \in { F(x) : x \in {v} } : TRUE

\* ---------------------------------------------------------------- file system

\* A file system value: the directories and the files.
FS(d, f) == [dirs |-> d, files |-> f]

Bytes(b) == [k |-> "bytes", v |-> b]
Toml(doc) == [k |-> "toml", v |-> doc]

IsDir(fs, p) == Real(p) \in fs.dirs
IsFile(fs, p) == Real(p) \in DOMAIN fs.files
\* Path::exists
Exists(fs, p) == IsDir(fs, p) \/ IsFile(fs, p)

\* std::fs::read_dir(p).next().is_none()
IsEmptyDir(fs, p) ==
    /\ IsDir(fs, p)
    /\ \A q \in fs.dirs \cup DOMAIN fs.files : q = Root \/ Parent(q) # Real(p)

\* std::fs::create_dir_all: every missing ancestor is created; fails when a
\* component is a regular file.
CreateDirAll(fs, p) ==
    LET r == Real(p) IN
    IF \E q \in Prefixes(r) : q \in DOMAIN fs.files
    THEN [ok |-> FALSE, fs |-> fs]
    ELSE [ok |-> TRUE, fs |-> FS(fs.dirs \cup Prefixes(r), fs.files)]

\* Whether a file can be created or opened for writing at p.
Writable(fs, p) == ~IsDir(fs, p) /\ IsDir(fs, Parent(Real(p)))

WriteFile(fs, p, content) == FS(fs.dirs, (Real(p) :> content) @@ fs.files)

\* std::fs::remove_dir_all: the directory and everything below it.
RemoveDirAll(fs, p) ==
    LET r == Real(p) IN
    IF ~IsDir(fs, p) THEN [ok |-> FALSE, fs |-> fs]
    ELSE [ok |-> TRUE,
          fs |-> FS({ d \in fs.dirs : ~IsPrefix(r, d) },
                    [ q \in { f \in DOMAIN fs.files : ~IsPrefix(r, f) } |-> fs.files[q] ])]

\* The paths whose existence or contents differ between two file systems.
Touched(a, b) ==
    { p \in a.dirs \cup b.dirs : (p \in a.dirs) # (p \in b.dirs) }
    \cup { p \in (DOMAIN a.files) \cup (DOMAIN b.files) :
             \/ (p \in DOMAIN a.files) # (p \in DOMAIN b.files)
             \/ a.files[p] # b.files[p] }

\* ---------------------------------------------------------------- Line Augmenter

RECURSIVE SplitLines(_, _)
\* BufRead::read_until(b'\n') run to the end of the file: each chunk keeps its
\* terminator; the last chunk has none when the file does not end with one.
SplitLines(cur, rest) ==
    IF rest = << >> THEN (IF cur = << >> THEN << >> ELSE <<cur>>)
    ELSE IF Head(rest) = NL THEN <<Append(cur, NL)>> \o SplitLines(<< >>, Tail(rest))
    ELSE SplitLines(Append(cur, Head(rest)), Tail(rest))

Chunks(content) == SplitLines(<< >>, content)

\* A scan that never finds the line.
ContainsLineNever(fs, p, line) == FALSE

\* lib.rs contains_line: false when the file cannot be opened or read.
ContainsLine(fs, p, line) ==
    /\ IsFile(fs, p)
    /\ LET cs == Chunks(fs.files[Real(p)].v) IN
       \E i \in 1..Len(cs) : cs[i] = line

\* append_if_not_present(path, line)
AppendIfNotPresent(fs, p, l) ==
    LET line == Append(l, NL) IN
    IF ContainsLine(fs, p, line) THEN [ok |-> TRUE, fs |-> fs, wrote |-> FALSE]
    ELSE IF ~Writable(fs, p) THEN [ok |-> FALSE, fs |-> fs, wrote |-> FALSE]
    ELSE [ok |-> TRUE,
          fs |-> WriteFile(fs, p,
                   Bytes((IF IsFile(fs, p) THEN fs.files[Real(p)].v ELSE << >>) \o line)),
          wrote |-> TRUE]

\* ---------------------------------------------------------------- Manifest Editor

\* A TOML item that is absent, a table, an array, or anything else.
Absent == [kind |-> "absent", other |-> None, items |-> << >>]
OtherItem == [kind |-> "other", other |-> None, items |-> << >>]
\* An array and its values.
Array(items) == [kind |-> "array", other |-> None, items |-> items]
\* A string value of an array, and a value that is no string.
Str(s) == [str |-> TRUE, v |-> s]
NonStr(s) == [str |-> FALSE, v |-> s]
\* The `workspace` item: when a table, its `members` item and its other keys.
Table(other, members) == [kind |-> "table", other |-> other, members |-> members]
NoTable == [kind |-> "absent", other |-> None, members |-> Absent]
OtherTable == [kind |-> "other", other |-> None, members |-> Absent]
\* A document: the `workspace` item and every other top-level key and table.
Doc(other, workspace) == [other |-> other, workspace |-> workspace]

\* Table::entry(key).or_insert(value)
OrInsert(item, value) == IF item.kind = "absent" THEN value ELSE item

\* A duplicate check that never finds the name.
AnyIsNever(items, name) == FALSE

\* members.iter().any(|item| item.as_str().map(|s| s == crate_name).unwrap_or_default())
AnyIs(items, name) == \E i \in 1..Len(items) : items[i].str /\ items[i].v = name

\* A push at the front of the array.
PushFront(items, name) == <<Str(name)>> \o items

\* members.push(crate_name)
Push(items, name) == Append(items, Str(name))

\* add_crate_to_workspace(cargo_toml_path, manifest, crate_name)
AddCrateToWorkspace(fs, cargoPath, manifest, name) ==
    LET workspace == OrInsert(manifest.workspace, Table(None, Absent))
        members == OrInsert(workspace.members, Array(<< >>))
    IN
    IF workspace.kind # "table" THEN [res |-> "MalformedToml", fs |-> fs]
    ELSE IF members.kind # "array" THEN [res |-> "MalformedToml", fs |-> fs]
    ELSE IF AnyIs(members.items, name)
    THEN [res |-> "CrateAlreadyExists", fs |-> fs]
    ELSE IF ~Writable(fs, cargoPath) THEN [res |-> "Io", fs |-> fs]
    ELSE [res |-> "ok",
          fs |-> WriteFile(fs, cargoPath,
                   Toml(Doc(manifest.other,
                            Table(workspace.other, Array(Push(members.items, name))))))]

\* ---------------------------------------------------------------- configuration

Years == {2023}
Kinds == {"input_files", "implementation", "day_template"}

\* aoclib's Config::default(): no path configured for any year.
NoPaths == [y \in Years |-> [k \in Kinds |-> NoneP]]

\* Config::implementation(year): the configured path, or the working directory.
ConfigImplementation(ps, y) ==
    IF ps[y].implementation.some THEN ps[y].implementation.p ELSE Cwd

\* Config::input_files(year): the configured path, or "inputs" in the working directory.
ConfigInputFiles(ps, y) ==
    IF ps[y].input_files.some THEN ps[y].input_files.p ELSE Cwd \o <<"inputs">>

\* Where aoclib keeps the day templates when no path is configured.
DefaultTemplateDir == <<"cfg", "day-template">>

\* Config::day_template(year)
ConfigDayTemplate(ps, y) ==
    IF ps[y].day_template.some THEN ps[y].day_template.p ELSE DefaultTemplateDir

\* ---------------------------------------------------------------- Path Reconciler

\* An ensure_path that stores the desired path over a configured one.
EnsurePathOverwrite(fs, desired, configured) ==
    IF desired.some
    THEN [res |-> "ok", configured |-> SomeP(RealRaw(desired)),
          fs |-> CreateDirAll(fs, RealRaw(desired)).fs, acted |-> TRUE]
    ELSE [res |-> "ok", configured |-> configured, fs |-> fs, acted |-> FALSE]

\* initialize_year's ensure_path(maybe_path, path_destination).  `acted` says
\* whether the call created a directory or stored a path.
EnsurePath(fs, desired, configured) ==
    IF desired.some /\ ~configured.some
    THEN Bind(IF Exists(fs, RealRaw(desired))
              THEN [ok |-> TRUE, fs |-> fs]
              ELSE CreateDirAll(fs, RealRaw(desired)), LAMBDA mk :
           IF ~mk.ok
           THEN [res |-> "Io", configured |-> configured, fs |-> fs, acted |-> FALSE]
           ELSE [res |-> "ok", configured |-> SomeP(RealRaw(desired)),
                 fs |-> mk.fs, acted |-> TRUE])
    ELSE IF /\ desired.some /\ configured.some
            /\ Absolutize(desired) # AbsolutizeAbs(configured.p)
    THEN [res |-> "ConfigCliConflict", configured |-> configured, fs |-> fs,
          acted |-> FALSE]
    ELSE [res |-> "ok", configured |-> configured, fs |-> fs, acted |-> FALSE]

\* ---------------------------------------------------------------- initialize_year

\* The line "/target/" of the default .gitignore.
TargetLine == <<"/", "target", "/">>

\* The parse of the default manifest, "[workspace]\nmembers = []".
DefaultManifest == Doc(None, Table(None, Array(<< >>)))

RECURSIVE CommonLen(_, _)
\* How many leading components two paths share.
CommonLen(a, b) ==
    IF a = << >> \/ b = << >> THEN 0
    ELSE IF Head(a) # Head(b) THEN 0
    ELSE 1 + CommonLen(Tail(a), Tail(b))

\* pathdiff::diff_paths(path, base) of two absolute paths: ".." for each
\* component of base after the common prefix, then the rest of path.
DiffPaths(path, base) ==
    Bind(CommonLen(path, base), LAMBDA n :
      SomeP([i \in 1..(Len(base) - n) |-> ".."] \o SubSeq(path, n + 1, Len(path))))

\* Path::starts_with("..")
StartsWithParent(rel) == rel # << >> /\ rel[1] = ".."

RECURSIVE JoinPath(_)
\* The bytes of a relative path: its components with "/" between them.
JoinPath(rel) ==
    IF rel = << >> THEN << >>
    ELSE IF Len(rel) = 1 THEN rel
    ELSE <<Head(rel), "/">> \o JoinPath(Tail(rel))

\* The ignore line of a relative path: its bytes and a trailing "/".
IgnoreLine(rel) == Append(JoinPath(rel), "/")

\* "Required" means that the target either does not exist, or is an empty directory.
WorkspaceRequired(fs, impl) == ~Exists(fs, impl) \/ (IsDir(fs, impl) /\ IsEmptyDir(fs, impl))

\* lib.rs 303-319: the implementation directory, its .gitignore and, when none
\* is there, the default Cargo.toml.
CreateWorkspace(fs, impl) ==
    Bind(CreateDirAll(fs, impl), LAMBDA mk :
      IF ~mk.ok THEN [ok |-> FALSE, fs |-> fs]
      ELSE Bind(AppendIfNotPresent(mk.fs, impl \o <<".gitignore">>, TargetLine), LAMBDA ig :
        IF ~ig.ok THEN [ok |-> FALSE, fs |-> mk.fs]
        ELSE IF /\ ~Exists(ig.fs, impl \o <<"Cargo.toml">>)
                /\ Writable(ig.fs, impl \o <<"Cargo.toml">>)
        THEN [ok |-> TRUE,
              fs |-> WriteFile(ig.fs, impl \o <<"Cargo.toml">>, Toml(DefaultManifest))]
        ELSE [ok |-> TRUE, fs |-> ig.fs]))

\* lib.rs 324-329: whether the input directory gets an ignore line.
NeedsIgnoreEntry(rel) == rel.some /\ ~StartsWithParent(rel.p)

\* What initialize_year returns and leaves behind: the result, the configuration
\* in memory (`paths`), the file system, whether each ensure_path created a
\* directory or stored a path (`acted`), whether the workspace was created
\* (`created`) and whether an ignore line for the input directory was asked
\* for (`entry`).
YearOut(res, ps, fs, acted, created, entry) ==
    [res |-> res, paths |-> ps, fs |-> fs, acted |-> acted, created |-> created,
     entry |-> entry]

\* lib.rs 292-339: initialize_year after its three ensure_path calls.
InitializeWorkspace(ps, fs, y, acted) ==
    Bind(ConfigImplementation(ps, y), LAMBDA impl :
    Bind(WorkspaceRequired(fs, impl), LAMBDA required :
    Bind(IF required THEN CreateWorkspace(fs, impl) ELSE [ok |-> TRUE, fs |-> fs], LAMBDA ws :
      IF ~ws.ok THEN YearOut("Io", ps, ws.fs, acted, FALSE, FALSE)
      ELSE Bind(DiffPaths(ConfigInputFiles(ps, y), impl), LAMBDA rel :
        IF ~NeedsIgnoreEntry(rel) THEN YearOut("ok", ps, ws.fs, acted, required, FALSE)
        ELSE Bind(AppendIfNotPresent(ws.fs, impl \o <<".gitignore">>, IgnoreLine(rel.p)),
               LAMBDA ig :
                 YearOut(IF ig.ok THEN "ok" ELSE "Io", ps, ig.fs, acted, required, TRUE))))))

\* lib.rs 289: the third ensure_path, for the day templates, and what follows.
InitializeYear3(ps, fs, y, opts, acted) ==
    Bind(EnsurePath(fs, opts.day_template, ps[y].day_template), LAMBDA e :
    Bind([ps EXCEPT ![y].day_template = e.configured], LAMBDA ps3 :
    Bind([acted EXCEPT !["day_template"] = e.acted], LAMBDA a :
      IF e.res # "ok" THEN YearOut(e.res, ps3, e.fs, a, FALSE, FALSE)
      ELSE InitializeWorkspace(ps3, e.fs, y, a))))

\* lib.rs 288: the second ensure_path, for the implementation directory, and
\* what follows.
InitializeYear2(ps, fs, y, opts, acted) ==
    Bind(EnsurePath(fs, opts.implementation, ps[y].implementation), LAMBDA e :
    Bind([ps EXCEPT ![y].implementation = e.configured], LAMBDA ps2 :
    Bind([acted EXCEPT !["implementation"] = e.acted], LAMBDA a :
      IF e.res # "ok" THEN YearOut(e.res, ps2, e.fs, a, FALSE, FALSE)
      ELSE InitializeYear3(ps2, e.fs, y, opts, a))))

\* initialize_year(config, year, path_opts): the first ensure_path, for the
\* input files, and what follows.
InitializeYear(ps, fs, y, opts) ==
    Bind(EnsurePath(fs, opts.input_files, ps[y].input_files), LAMBDA e :
    Bind([ps EXCEPT ![y].input_files = e.configured], LAMBDA ps1 :
    Bind([k \in Kinds |-> k = "input_files" /\ e.acted], LAMBDA a :
      IF e.res # "ok" THEN YearOut(e.res, ps1, e.fs, a, FALSE, FALSE)
      ELSE InitializeYear2(ps1, e.fs, y, opts, a))))

\* ---------------------------------------------------------------- Template Materializer

\* TEMPLATE_FILES, each a relative path.
TemplateFiles == << <<"Cargo.toml">>, <<"src", "lib.rs">>, <<"src", "main.rs">> >>

\* The template of a day's Cargo.toml at the remote: a manifest stub that names
\* the package.
RemoteCargoToml == <<"[package] name = ", "{package_name}", " [dependencies]">>

\* day-template/src/lib.rs: no placeholder, braces escaped.
RemoteLibRs == <<"pub fn part1(input: &Path) ", "\\{", " unimplemented!() }">>

\* day-template/src/main.rs: the package name, the year and the day.
RemoteMainRs ==
    <<"use ", "{package_name}", "::", "\\{", "part1, part2}; const YEAR: u32 = ", "{year}",
      "; const DAY: u8 = ", "{day}", "; fn main()">>

\* The bytes the remote serves for the i-th template.
Remote(i) == IF i = 1 THEN RemoteCargoToml ELSE IF i = 2 THEN RemoteLibRs ELSE RemoteMainRs

\* What the collaborators do in one call: the fetch that fails, if one does
\* (failAt = 0: none), how it fails ("send": no response; "cut": the response
\* breaks off while it is copied), and whether the input fetch succeeds.
NetOutcome(failAt, how, input) == [failAt |-> failAt, how |-> how, input |-> input]

Placeholders == {"{year}", "{day}", "{package_name}"}

\* What a download that breaks off leaves in the file: here, the first token,
\* and the opening brace of the placeholder after it when there is one.
CutBytes(i) ==
    IF Remote(i)[2] \in Placeholders THEN <<Remote(i)[1], "{">> ELSE <<Remote(i)[1]>>

\* An existence test that finds no template.
TemplateExistsNever(fs, tp) == FALSE

\* lib.rs 77: template_path.exists()
TemplateExists(fs, tp) == Exists(fs, tp)

\* lib.rs 98-103: the file created with create_new, the response copied into it.
StoreTemplate(fs, tp, bytes) ==
    IF Exists(fs, tp) \/ ~Writable(fs, tp) THEN [ok |-> FALSE, fs |-> fs]
    ELSE [ok |-> TRUE, fs |-> WriteFile(fs, tp, Bytes(bytes))]

RECURSIVE EnsureFrom(_, _, _, _, _)
\* The loop of ensure_template_dir from the i-th template on.  `fetched` are the
\* templates a request was sent for.
EnsureFrom(fs, dir, i, net, fetched) ==
    IF i > Len(TemplateFiles) THEN [res |-> "ok", fs |-> fs, fetched |-> fetched]
    ELSE IF TemplateExists(fs, dir \o TemplateFiles[i])
    THEN EnsureFrom(fs, dir, i + 1, net, fetched)
    ELSE Bind(dir \o TemplateFiles[i], LAMBDA tp :
         Bind(CreateDirAll(fs, Parent(tp)), LAMBDA mk :
         Bind(fetched \cup {i}, LAMBDA sent :
           IF ~mk.ok THEN [res |-> "Io", fs |-> fs, fetched |-> fetched]
           ELSE IF net.failAt = i /\ net.how = "send"
           THEN [res |-> "RequestingInput", fs |-> mk.fs, fetched |-> sent]
           ELSE Bind(StoreTemplate(mk.fs, tp, IF net.failAt = i THEN CutBytes(i) ELSE Remote(i)),
                  LAMBDA st :
                    IF ~st.ok THEN [res |-> "Io", fs |-> st.fs, fetched |-> sent]
                    ELSE IF net.failAt = i
                    THEN [res |-> "Downloading", fs |-> st.fs, fetched |-> sent]
                    ELSE EnsureFrom(st.fs, dir, i + 1, net, sent)))))

\* ensure_template_dir(config, year)
EnsureTemplateDir(fs, ps, y, net) == EnsureFrom(fs, ConfigDayTemplate(ps, y), 1, net, {})

\* format!("{:02}", n)
Pad2(n) == (IF n < 10 THEN "0" ELSE "") \o ToString(n)

\* format!("day{:02}", day)
DayName(day) == "day" \o Pad2(day)

\* The Context of render_templates_into.
Context(y, day, dayName) ==
    [year |-> ToString(y), day |-> ToString(day), package_name |-> dayName]

\* The text of one token rendered by TinyTemplate: a placeholder's value, an
\* escaped brace, or the token itself.
RenderToken(tok, ctx) ==
    IF tok = "{year}" THEN ctx.year
    ELSE IF tok = "{day}" THEN ctx.day
    ELSE IF tok = "{package_name}" THEN ctx.package_name
    ELSE IF tok = "\\{" THEN "{"
    ELSE tok

\* TinyTemplate::add_template and render: an error for a tag that is not closed.
Render(text, ctx) ==
    IF \E i \in 1..Len(text) : text[i] = "{"
    THEN [ok |-> FALSE, out |-> << >>]
    ELSE [ok |-> TRUE, out |-> [i \in 1..Len(text) |-> RenderToken(text[i], ctx)]]

\* The text read from a file: a serialised document holds no template tag.
TextOf(content) == IF content.k = "bytes" THEN content.v ELSE <<"toml">>

\* An open of the destination that truncates a file that is there.
OpenDestinationTruncate(fs, dest) == IsDir(fs, Parent(Real(dest))) /\ ~IsDir(fs, dest)

\* lib.rs 141-145: OpenOptions::new().write(true).create_new(true).open(dest)
OpenDestination(fs, dest) == ~Exists(fs, dest) /\ Writable(fs, dest)

RECURSIVE RenderFrom(_, _, _, _, _)
\* The loop of render_templates_into from the i-th template on.
RenderFrom(fs, tdir, dayDir, ctx, i) ==
    IF i > Len(TemplateFiles) THEN [res |-> "ok", fs |-> fs]
    ELSE IF ~IsFile(fs, tdir \o TemplateFiles[i]) THEN [res |-> "IoReadTemplate", fs |-> fs]
    ELSE Bind(dayDir \o TemplateFiles[i], LAMBDA dest :
         Bind(Render(TextOf(fs.files[Real(tdir \o TemplateFiles[i])]), ctx), LAMBDA r :
           IF ~r.ok THEN [res |-> "Template", fs |-> fs]
           ELSE IF ~OpenDestination(fs, dest) THEN [res |-> "IoDestination", fs |-> fs]
           ELSE Bind(WriteFile(fs, dest, Bytes(r.out)),
                  LAMBDA f : RenderFrom(f, tdir, dayDir, ctx, i + 1))))

\* render_templates_into(config, day_dir, year, day, day_name)
RenderTemplatesInto(fs, ps, dayDir, y, day, dayName, net) ==
    Bind(EnsureTemplateDir(fs, ps, y, net), LAMBDA ens :
      IF ens.res # "ok" THEN [res |-> ens.res, fs |-> ens.fs, fetched |-> ens.fetched]
      ELSE Bind(RenderFrom(ens.fs, ConfigDayTemplate(ps, y), dayDir,
                           Context(y, day, dayName), 1),
             LAMBDA r : [res |-> r.res, fs |-> r.fs, fetched |-> ens.fetched]))

\* ---------------------------------------------------------------- initialize

\* get_cargo_toml(config, year)
GetCargoToml(fs, ps, y) ==
    Bind(ConfigImplementation(ps, y) \o <<"Cargo.toml">>, LAMBDA path :
      IF ~Exists(fs, path)
      THEN [res |-> "NoCargoToml", path |-> path, manifest |-> DefaultManifest]
      ELSE IF ~IsFile(fs, path)
      THEN [res |-> "Io", path |-> path, manifest |-> DefaultManifest]
      ELSE IF fs.files[Real(path)].k # "toml"
      THEN [res |-> "ParseToml", path |-> path, manifest |-> DefaultManifest]
      ELSE [res |-> "ok", path |-> path, manifest |-> fs.files[Real(path)].v])

\* Config::input_for(year, day): "input-NN.txt" in the input directory.
InputFor(ps, y, day) == ConfigInputFiles(ps, y) \o <<"input-" \o Pad2(day) \o ".txt">>

\* aoclib::website::get_input(config, year, day): does nothing if the input
\* file already exists; else downloads it, or fails.
GetInput(fs, ps, y, day, net) ==
    Bind(InputFor(ps, y, day), LAMBDA target :
      IF Exists(fs, target) THEN [res |-> "ok", fs |-> fs]
      ELSE Bind(CreateDirAll(fs, Parent(target)), LAMBDA mk :
        IF ~net.input \/ ~mk.ok THEN [res |-> "GetInput", fs |-> fs]
        ELSE [res |-> "ok", fs |-> WriteFile(mk.fs, target, Bytes(<<"puzzle input">>))]))

\* An initialize that fetches the input whatever skip_get_input says.
SkipsInputNever(skipInput) == FALSE

\* lib.rs 186: whether the input fetch is left out.
SkipsInput(skipInput) == skipInput

\* What initialize returns and leaves behind: the result, the file system, the
\* templates a request was sent for, and whether render_templates_into and
\* get_input were called.
DayOut(res, fs, fetched, rendered, input) ==
    [res |-> res, fs |-> fs, fetched |-> fetched, rendered |-> rendered, input |-> input]

\* lib.rs 186-191: the input fetch, unless skipped.
FetchInput(ps, fs, y, day, skipInput, net, fetched, rendered) ==
    IF SkipsInput(skipInput) THEN DayOut("ok", fs, fetched, rendered, FALSE)
    ELSE Bind(GetInput(fs, ps, y, day, net),
           LAMBDA gi : DayOut(gi.res, gi.fs, fetched, rendered, TRUE))

\* lib.rs 172-184: the sub-crate's directory, its workspace entry, its files.
CreateCrate(ps, fs, y, day, m, net) ==
    Bind(DayName(day), LAMBDA dayName :
    Bind(ConfigImplementation(ps, y) \o <<dayName>>, LAMBDA dayDir :
    Bind(CreateDirAll(fs, dayDir \o <<"src">>), LAMBDA mk :
      IF ~mk.ok THEN DayOut("Io", fs, {}, FALSE, FALSE)
      ELSE Bind(AddCrateToWorkspace(mk.fs, m.path, m.manifest, dayName), LAMBDA add :
        IF add.res # "ok" THEN DayOut(add.res, add.fs, {}, FALSE, FALSE)
        ELSE Bind(RenderTemplatesInto(add.fs, ps, dayDir, y, day, dayName, net),
               LAMBDA rend : DayOut(rend.res, rend.fs, rend.fetched, TRUE, FALSE))))))

\* initialize(config, year, day, skip_create_crate, skip_get_input)
Initialize(ps, fs, y, day, skipCrate, skipInput, net) ==
    Bind(GetCargoToml(fs, ps, y), LAMBDA m :
      IF m.res # "ok" THEN DayOut(m.res, fs, {}, FALSE, FALSE)
      ELSE IF skipCrate THEN FetchInput(ps, fs, y, day, skipInput, net, {}, FALSE)
      ELSE Bind(CreateCrate(ps, fs, y, day, m, net), LAMBDA c :
             IF c.res # "ok" THEN c
             ELSE FetchInput(ps, c.fs, y, day, skipInput, net, c.fetched, TRUE)))

\* clear_templates(config, year)
ClearTemplates(ps, fs, y) ==
    Bind(RemoveDirAll(fs, ConfigDayTemplate(ps, y)), LAMBDA r :
      [res |-> IF r.ok THEN "ok" ELSE "Io", fs |-> r.fs])

\* ================================================================ Line Augmenter alone
\* append_if_not_present applied, again and again, to one file that starts
\* absent or with any contents up to MaxInitLen tokens.

ByteAlphabet == {"a", NL}

SeqsUpTo(S, n) == UNION { [1..m -> S] : m \in 0..n }

IgnoreFile == Cwd \o <<".gitignore">>

CurFS == FS(dirs, files)

\* The body of a chunk: the chunk without its terminator.
Body(chunk) ==
    IF chunk # << >> /\ chunk[Len(chunk)] = NL THEN SubSeq(chunk, 1, Len(chunk) - 1) ELSE chunk

\* How many lines of the file at p are l (the last line may lack its terminator).
Occurrences(fs, p, l) ==
    IF ~IsFile(fs, p) THEN 0
    ELSE LET cs == Chunks(fs.files[Real(p)].v) IN
         Cardinality({ i \in 1..Len(cs) : Body(cs[i]) = l })

InitAppend ==
    /\ paths = NoPaths
    /\ cfgExists = FALSE
    /\ dirs = {Root, Cwd}
    /\ \/ files = << >>
       \/ \E c \in SeqsUpTo(ByteAlphabet, MaxInitLen) : files = (IgnoreFile :> Bytes(c))
    /\ last = [op |-> "start"]
    /\ nops = 0

\* One call append_if_not_present(IgnoreFile, l).  `last` keeps the line, whether
\* this call repeats the call before it, whether the file was absent, and how
\* often the line occurred before this call (cb) and before the first call of
\* the pair this call ends (cb2).
AppendCall(l) ==
    LET r == AppendIfNotPresent(CurFS, IgnoreFile, l)
        again == last.op = "append" /\ last.line = l
        cb == Occurrences(CurFS, IgnoreFile, l)
    IN
    /\ r.ok
    /\ Len(r.fs.files[IgnoreFile].v) <= MaxFileLen
    /\ dirs' = r.fs.dirs
    /\ files' = r.fs.files
    /\ last' = [op |-> "append", line |-> l, twice |-> again,
                absent |-> ~IsFile(CurFS, IgnoreFile),
                cb |-> cb, cb2 |-> IF again THEN last.cb ELSE cb]
    /\ UNCHANGED <<paths, cfgExists, nops>>

NextAppend == \E l \in SeqsUpTo(ByteAlphabet, MaxLineLen) : AppendCall(l)

SpecAppend == InitAppend /\ [][NextAppend]_vars

\* C3 as the spec states it: after two calls with the same line L, whatever the
\* file held before, the file holds exactly one occurrence of L.
C3_TwiceExactlyOnce_Original ==
    (last.op = "append" /\ last.twice)
        => Occurrences(CurFS, IgnoreFile, last.line) = 1

\* C3, amended: when L holds no terminator and occurred at most once as a line
\* of the file before the two calls, the file holds exactly one line L after
\* them; and a call on an absent file creates it holding exactly L and the
\* terminator.
C3_TwiceExactlyOnce ==
    /\ (/\ last.op = "append" /\ last.twice
        /\ \A i \in 1..Len(last.line) : last.line[i] # NL
        /\ last.cb2 <= 1)
          => Occurrences(CurFS, IgnoreFile, last.line) = 1
    /\ (last.op = "append" /\ last.absent)
          => files[IgnoreFile] = Bytes(Append(last.line, NL))

\* C3's case: the second of two calls with a line the file first held in an
\* unterminated last line.
C3_Witness ==
    /\ last.op = "append" /\ last.twice
    /\ last.line = <<"a">>
    /\ last.cb2 = 1 /\ last.cb = 0
    /\ Occurrences(CurFS, IgnoreFile, last.line) = 1

\* ================================================================ Manifest Editor alone
\* add_crate_to_workspace applied, again and again, to one manifest that starts
\* as any document whose members array holds at most MaxMembers values.

CrateNames == {"day07", "day12"}

ManifestFile == Cwd \o <<"Cargo.toml">>

InitItems == SeqsUpTo({Str("day07"), Str("day12"), NonStr("day07")}, MaxMembers)

InitDocs ==
    { Doc(o, w) :
        o \in {None, "package"},
        w \in {NoTable, OtherTable}
              \cup { Table(wo, m) :
                       wo \in {None, "resolver"},
                       m \in {Absent, OtherItem} \cup { Array(i) : i \in InitItems } } }

\* The values of workspace.members; none when the array is not there.
MembersOf(doc) ==
    IF doc.workspace.kind = "table" /\ doc.workspace.members.kind = "array"
    THEN doc.workspace.members.items ELSE << >>

\* Neither `workspace` nor `workspace.members` is of the wrong kind.
WellFormed(doc) ==
    /\ doc.workspace.kind \in {"absent", "table"}
    /\ doc.workspace.kind = "table" => doc.workspace.members.kind \in {"absent", "array"}

CountOf(items, name) == Cardinality({ i \in 1..Len(items) : items[i] = Str(name) })

InitAdd ==
    /\ paths = NoPaths
    /\ cfgExists = FALSE
    /\ dirs = {Root, Cwd}
    /\ \E d \in InitDocs : files = (ManifestFile :> Toml(d))
    /\ last = [op |-> "start"]
    /\ nops = 0

\* One call add_crate_to_workspace(ManifestFile, <the stored document>, n).
\* `last` keeps the name, the result and the document stored before the call.
AddCall(n) ==
    LET pre == files[ManifestFile].v
        r == AddCrateToWorkspace(CurFS, ManifestFile, pre, n)
    IN
    /\ Len(MembersOf(pre)) <= MaxMembers
    /\ dirs' = r.fs.dirs
    /\ files' = r.fs.files
    /\ last' = [op |-> "add", name |-> n, res |-> r.res, pre |-> pre]
    /\ UNCHANGED <<paths, cfgExists, nops>>

NextAdd == \E n \in CrateNames : AddCall(n)

SpecAdd == InitAdd /\ [][NextAdd]_vars

\* C1: adding a name that is not a member of a well-formed manifest succeeds,
\* and the stored manifest's members are the previous members with the name
\* appended at the end, every other key of the document being as it was.
C1_AppendsMember ==
    (/\ last.op = "add"
     /\ WellFormed(last.pre)
     /\ ~AnyIs(MembersOf(last.pre), last.name))
       => /\ last.res = "ok"
          /\ files[ManifestFile].k = "toml"
          /\ LET now == files[ManifestFile].v IN
             /\ MembersOf(now) = MembersOf(last.pre) \o <<Str(last.name)>>
             /\ CountOf(MembersOf(now), last.name) = 1
             /\ now.other = last.pre.other
             /\ now.workspace.kind = "table"
             /\ now.workspace.other = last.pre.workspace.other

\* C1's case: a name appended to a manifest that held another member, a value
\* that is no string, and other keys.
C1_Witness ==
    /\ last.op = "add" /\ last.res = "ok" /\ last.name = "day12"
    /\ last.pre = Doc("package", Table("resolver", Array(<<Str("day07"), NonStr("day07")>>)))
    /\ MembersOf(files[ManifestFile].v) = <<Str("day07"), NonStr("day07"), Str("day12")>>

\* C2: adding a name that is already a member fails with CrateAlreadyExists and
\* leaves the stored manifest as it was; and no call makes a name that occurred
\* at most once occur more than once.
C2_DuplicateRejected ==
    last.op = "add" =>
        /\ AnyIs(MembersOf(last.pre), last.name)
             => /\ last.res = "CrateAlreadyExists"
                /\ files[ManifestFile] = Toml(last.pre)
        /\ \A n \in CrateNames :
             CountOf(MembersOf(last.pre), n) <= 1
               => CountOf(MembersOf(files[ManifestFile].v), n) <= 1

\* C2's case: a second add of a name that an earlier add appended.
C2_Witness ==
    /\ last.op = "add" /\ last.res = "CrateAlreadyExists" /\ last.name = "day12"
    /\ MembersOf(last.pre) = <<Str("day07"), Str("day12")>>
    /\ files[ManifestFile] = Toml(last.pre)

\* ================================================================ the tool

\* ---------------------------------------------------------------- the commands

\* main.rs 110-112, written so that a failed initialize_year saves all the same.
SavesAlways(res) == TRUE

\* main.rs 110-112: `?` returns before config.save() when initialize_year fails.
Saves(res) == res = "ok"

\* Subcommand::InitYear.  `last` keeps the options, the result, the configuration
\* stored before the call (`pre`) and in memory when initialize_year returned
\* (`mem`), what each ensure_path did, whether the implementation directory
\* the call resolved was absent or empty (`fresh`), or absent (`absent`), when
\* the call began, and for which kinds the call gives the path that the
\* init-year just before it was given and stored (`again`).
InitYearCmd(y, opts) ==
    /\ nops < MaxOps
    /\ \E ps \in {IF cfgExists THEN paths ELSE NoPaths} :
       \E r \in {InitializeYear(ps, CurFS, y, opts)} :
          /\ paths' = IF Saves(r.res) THEN r.paths ELSE paths
          /\ cfgExists' = (cfgExists \/ Saves(r.res))
          /\ dirs' = r.fs.dirs
          /\ files' = r.fs.files
          /\ last' = [op |-> "init_year", year |-> y, opts |-> opts, res |-> r.res,
                      pre |-> ps, mem |-> r.paths, acted |-> r.acted,
                      created |-> r.created, entry |-> r.entry,
                      madeDirs |-> r.fs.dirs \ dirs,
                      fresh |-> WorkspaceRequired(CurFS, ConfigImplementation(r.paths, y)),
                      absent |-> ~Exists(CurFS, ConfigImplementation(r.paths, y)),
                      again |-> [k \in Kinds |->
                                   /\ last.op = "init_year" /\ last.res = "ok"
                                   /\ last.year = y /\ last.acted[k]
                                   /\ last.opts[k] = opts[k]]]
          /\ nops' = nops + 1

\* Subcommand::Init.  `last` keeps the arguments, the result, whether both
\* collaborators were set to succeed, whether the configuration and the manifest
\* could be loaded (`loaded`), which steps were reached, which templates
\* and which destination files existed when the call began, the paths the call
\* created or changed, and whether the call follows a successful init-year
\* that began with a fresh implementation directory (`e2e`), or with none
\* (`afterAbsent`).
InitCmd(y, day, skipCrate, skipInput, net) ==
    /\ nops < MaxOps
    /\ \E r \in {IF cfgExists
                   THEN Initialize(paths, CurFS, y, day, skipCrate, skipInput, net)
                   ELSE DayOut("ConfigLoad", CurFS, {}, FALSE, FALSE)} :
       \E tdir \in {ConfigDayTemplate(paths, y)} :
       \E dayDir \in {ConfigImplementation(paths, y) \o <<DayName(day)>>} :
          /\ dirs' = r.fs.dirs
          /\ files' = r.fs.files
          /\ last' = [op |-> "init", year |-> y, day |-> day, skipCrate |-> skipCrate,
                      skipInput |-> skipInput, res |-> r.res,
                      collabOk |-> (net.failAt = 0 /\ net.input),
                      loaded |-> (cfgExists /\ GetCargoToml(CurFS, paths, y).res = "ok"),
                      fetched |-> r.fetched, rendered |-> r.rendered, input |-> r.input,
                      hadTemplates |-> { i \in 1..Len(TemplateFiles) :
                                           Exists(CurFS, tdir \o TemplateFiles[i]) },
                      hadDest |-> { i \in 1..Len(TemplateFiles) :
                                      Exists(CurFS, dayDir \o TemplateFiles[i]) },
                      touched |-> Touched(CurFS, r.fs),
                      e2e |-> (/\ last.op = "init_year" /\ last.res = "ok"
                               /\ last.fresh /\ last.year = y),
                      afterAbsent |-> (/\ last.op = "init_year" /\ last.res = "ok"
                                       /\ last.absent /\ last.year = y)]
          /\ nops' = nops + 1
          /\ UNCHANGED <<paths, cfgExists>>

\* Subcommand::ClearTemplates
ClearTemplatesCmd(y) ==
    /\ nops < MaxOps
    /\ \E r \in {ClearTemplates(IF cfgExists THEN paths ELSE NoPaths, CurFS, y)} :
          /\ dirs' = r.fs.dirs
          /\ files' = r.fs.files
          /\ last' = [op |-> "clear_templates", year |-> y, res |-> r.res]
          /\ nops' = nops + 1
          /\ UNCHANGED <<paths, cfgExists>>

\* ConfigOpts::Clear: the flagged paths of the year are forgotten.
ConfigClearCmd(y, flags) ==
    LET ps == IF cfgExists THEN paths ELSE NoPaths IN
    /\ nops < MaxOps
    /\ paths' = [ps EXCEPT ![y] = [k \in Kinds |-> IF k \in flags THEN NoneP ELSE ps[y][k]]]
    /\ cfgExists' = TRUE
    /\ last' = [op |-> "config_clear", year |-> y, flags |-> flags, res |-> "ok"]
    /\ nops' = nops + 1
    /\ UNCHANGED <<dirs, files>>

\* ConfigOpts::Set: each path given is stored absolutized, unless one of them
\* exists and is no directory.
ConfigSetCmd(y, opts) ==
    LET ps == IF cfgExists THEN paths ELSE NoPaths
        bad == \E k \in Kinds :
                 /\ opts[k].some
                 /\ Exists(CurFS, RealRaw(opts[k])) /\ ~IsDir(CurFS, RealRaw(opts[k]))
    IN
    /\ nops < MaxOps
    /\ paths' = IF bad THEN paths
                ELSE [ps EXCEPT ![y] = [k \in Kinds |->
                        IF opts[k].some THEN SomeP(Absolutize(opts[k])) ELSE ps[y][k]]]
    /\ cfgExists' = (cfgExists \/ ~bad)
    /\ last' = [op |-> "config_set", year |-> y, opts |-> opts,
                res |-> IF bad THEN "NotADirectory" ELSE "ok"]
    /\ nops' = nops + 1
    /\ UNCHANGED <<dirs, files>>

\* ---------------------------------------------------------------- the tool

\* The days a run asks for.
Days == {7, 12}

\* The paths a run gives on the command line.
InputOpts == {NoneRaw, RawPath(FALSE, <<".">>), RawPath(FALSE, <<"y", "inputs">>),
              RawPath(FALSE, <<"..", "l">>)}
ImplOpts == {NoneRaw, RawPath(FALSE, <<".">>), RawPath(FALSE, <<"y">>)}
TemplateOpts == {NoneRaw, RawPath(FALSE, <<"t">>)}

PathOpts ==
    { [input_files |-> i, implementation |-> m, day_template |-> t] :
        i \in InputOpts, m \in ImplOpts, t \in TemplateOpts }

\* What the collaborators may do in a call: every fetch succeeds, or the n-th
\* fetch fails in one of the two ways; the input fetch succeeds or fails.  A
\* call that skips a phase is given no choice about that phase's collaborator.
NetOutcomes(skipCrate, skipInput) ==
    { NetOutcome(0, "send", i) : i \in (IF skipInput THEN {TRUE} ELSE BOOLEAN) }
    \cup { NetOutcome(n, h, TRUE) :
             n \in (IF skipCrate THEN {} ELSE 1..Len(TemplateFiles)), h \in {"send", "cut"} }

\* The paths `config set` is given: one path at a time.
SetOpts ==
    { o \in PathOpts : Cardinality({ k \in Kinds : o[k].some }) = 1 }

\* A file a user wrote into the directory of day 7.
UserFile == Cwd \o <<"day07">> \o TemplateFiles[3]

\* A template a user wrote into the default template directory.
UserTemplate == DefaultTemplateDir \o TemplateFiles[2]

\* The file system before the first command: the working directory is empty, or
\* holds a workspace with no member and a file of the user's in day07/src, with
\* a template of the user's in the default template directory.
Init ==
    /\ paths = NoPaths
    /\ cfgExists = FALSE
    /\ \/ /\ dirs = {Root, Cwd, SymTarget}
          /\ files = << >>
       \/ /\ dirs = {Root, Cwd, SymTarget} \cup (Prefixes(Parent(UserFile)) \ {Root})
                      \cup (Prefixes(Parent(UserTemplate)) \ {Root})
          /\ files = (ManifestFile :> Toml(DefaultManifest))
                     @@ (UserFile :> Bytes(<<"fn main()">>))
                     @@ (UserTemplate :> Bytes(<<"// my ", "{package_name}">>))
    /\ last = [op |-> "start"]
    /\ nops = 0

Next ==
    \/ \E y \in Years, o \in PathOpts : InitYearCmd(y, o)
    \/ \E y \in Years, d \in Days, sc \in BOOLEAN, si \in BOOLEAN :
         \E n \in NetOutcomes(sc, si) : InitCmd(y, d, sc, si, n)
    \/ \E y \in Years : ClearTemplatesCmd(y)
    \/ \E y \in Years, f \in (SUBSET Kinds) \ {{}} : ConfigClearCmd(y, f)
    \/ \E y \in Years, o \in SetOpts : ConfigSetCmd(y, o)

Spec == Init /\ [][Next]_vars

\* ================================================================ the claims about the tool

\* The year every claim below speaks of.
TheYear == CHOOSE y \in Years : TRUE

\* Whether the path the command line gives for kind k conflicts with the path
\* the configuration held for it before the last init-year.
Conflicts(k) ==
    /\ last.opts[k].some /\ last.pre[last.year][k].some
    /\ Absolutize(last.opts[k]) # AbsolutizeAbs(last.pre[last.year][k].p)

\* Whether the path the command line gives for kind k is absent, or agrees with
\* the path the configuration held for it before the last init-year.
Agrees(k) ==
    \/ ~last.opts[k].some
    \/ /\ last.pre[last.year][k].some
       /\ Absolutize(last.opts[k]) = AbsolutizeAbs(last.pre[last.year][k].p)

\* The order in which initialize_year reconciles the kinds.
KindOrder == <<"input_files", "implementation", "day_template">>

\* C4: an init-year whose desired path for some kind conflicts with the
\* configured one fails, with ConfigCliConflict unless the reconciliation of an
\* earlier kind failed first; the conflicting kind's path is not changed in
\* memory, and the stored paths of all three kinds are those before the call.
C4_ConflictKeepsConfig ==
    (last.op = "init_year" /\ \E k \in Kinds : Conflicts(k))
        => /\ last.res \in {"ConfigCliConflict", "Io"}
           /\ \A i \in 1..3 :
                (Conflicts(KindOrder[i]) /\ \A j \in 1..(i - 1) : Agrees(KindOrder[j]))
                  => last.res = "ConfigCliConflict"
           /\ \A k \in Kinds : Conflicts(k) => last.mem[last.year][k] = last.pre[last.year][k]
           /\ cfgExists
           /\ paths = last.pre

\* C4's case: the implementation path conflicts after the input path was
\* reconciled in memory; nothing of it is stored.
C4_Witness ==
    /\ last.op = "init_year" /\ last.res = "ConfigCliConflict"
    /\ Conflicts("implementation")
    /\ last.acted["input_files"]
    /\ last.mem # last.pre
    /\ paths = last.pre

\* The templates whose destination file existed before the last init.
DayDirOf(y, day) == ConfigImplementation(paths, y) \o <<DayName(day)>>

\* C5: an init that reaches render_templates_into while a destination file of
\* the day's directory exists fails, with the error of opening the destination
\* when the templates could be fetched, read and rendered, and leaves every
\* destination file that existed as it was.
C5_DestinationKept ==
    (last.op = "init" /\ last.rendered /\ last.hadDest # {})
        => /\ last.res \in {"Io", "RequestingInput", "Downloading", "Template",
                            "IoReadTemplate", "IoDestination"}
           /\ ((last.fetched = {} \/ last.collabOk)
                 /\ last.res \notin {"Template", "IoReadTemplate", "Io"})
                => last.res = "IoDestination"
           /\ \A i \in last.hadDest :
                Real(DayDirOf(last.year, last.day) \o TemplateFiles[i]) \notin last.touched

\* C5's case: day07/src/main.rs is the user's; the init of day 7 fails at it
\* and the file still holds the user's text.
C5_Witness ==
    /\ last.op = "init" /\ last.rendered /\ last.hadDest = {3}
    /\ last.res = "IoDestination"
    /\ UserFile \in DOMAIN files /\ files[UserFile] = Bytes(<<"fn main()">>)

\* C6: an init that reaches ensure_template_dir sends no request for a template
\* whose file existed, and leaves that file as it was, whether it succeeds or
\* fails.
C6_TemplatesKept ==
    (last.op = "init" /\ last.rendered)
        => /\ last.fetched \cap last.hadTemplates = {}
           /\ \A i \in last.hadTemplates :
                Real(ConfigDayTemplate(paths, last.year) \o TemplateFiles[i]) \notin last.touched

\* C6's case: the user's template of src/lib.rs existed; the other two were
\* fetched and the user's still holds the user's text.
C6_Witness ==
    /\ last.op = "init" /\ last.rendered
    /\ last.hadTemplates = {2} /\ last.fetched = {1, 3}
    /\ files[UserTemplate] = Bytes(<<"// my ", "{package_name}">>)

\* The file a template is rendered to, for the context of year 2023 and day 7.
RenderedDay07(i) ==
    Bytes(Render(TextOf(files[Real(ConfigDayTemplate(paths, TheYear) \o TemplateFiles[i])]),
                 Context(2023, 7, "day07")).out)

\* C7: after an init-year of 2023 that began with an absent or empty
\* implementation directory and succeeded, an init of day 7 with no skip flag
\* and collaborators that succeed leaves a manifest whose members are exactly
\* ["day07"], the three rendered files in day07, and a /target/ line in the
\* ignore file.
C7_EndToEnd ==
    (/\ last.op = "init" /\ last.e2e /\ last.year = 2023 /\ last.day = 7
     /\ ~last.skipCrate /\ ~last.skipInput /\ last.collabOk)
        => LET impl == ConfigImplementation(paths, 2023)
               day == impl \o <<"day07">>
           IN /\ last.res = "ok"
              /\ IsFile(CurFS, impl \o <<"Cargo.toml">>)
              /\ files[Real(impl \o <<"Cargo.toml">>)].k = "toml"
              /\ MembersOf(files[Real(impl \o <<"Cargo.toml">>)].v) = <<Str("day07")>>
              /\ \A i \in 1..Len(TemplateFiles) :
                   /\ IsFile(CurFS, day \o TemplateFiles[i])
                   /\ files[Real(day \o TemplateFiles[i])] = RenderedDay07(i)
              /\ Occurrences(CurFS, impl \o <<".gitignore">>, TargetLine) >= 1

\* C8: an init with both skip flags touches no file or directory, fetches and
\* renders no template and does not ask for the input, and succeeds when the
\* manifest loads; with skip_create_crate alone it asks for the input and does
\* nothing of the crate; with skip_get_input alone it does the crate and does
\* not ask for the input.
C8_SkipFlags ==
    (last.op = "init")
        => /\ (last.skipCrate /\ last.skipInput)
                => /\ last.touched = {} /\ last.fetched = {}
                   /\ ~last.rendered /\ ~last.input
                   /\ last.loaded => last.res = "ok"
           /\ last.skipCrate => ~last.rendered /\ last.fetched = {}
           /\ last.skipInput => ~last.input
           /\ (last.skipCrate /\ ~last.skipInput /\ last.loaded)
                => /\ last.input
                   /\ last.touched \subseteq
                        Prefixes(Real(InputFor(paths, last.year, last.day)))
                   /\ last.res = "ok" => IsFile(CurFS, InputFor(paths, last.year, last.day))
           /\ (~last.skipCrate /\ last.skipInput /\ last.loaded)
                => /\ last.rendered \/ last.res \in {"Io", "CrateAlreadyExists", "MalformedToml"}
                   /\ last.res = "ok"
                        => \A i \in 1..Len(TemplateFiles) :
                             IsFile(CurFS, DayDirOf(last.year, last.day) \o TemplateFiles[i])

\* C8's case: both flags are set, the manifest is there, and the call returns
\* without having done anything.
C8_Witness ==
    /\ last.op = "init" /\ last.skipCrate /\ last.skipInput
    /\ last.loaded /\ last.res = "ok" /\ last.touched = {}

\* C9: over an init-year, the stored path of a kind changes only from nothing
\* to the canonical form of the desired path; for a kind whose desired path is
\* absent or agrees with the configured one, ensure_path creates no directory
\* and leaves the path as it was, and when that is so for all three kinds the
\* call creates no directory outside the implementation directory's own path.
C9_OnlyNoneToDesired ==
    (last.op = "init_year")
        => /\ \A k \in Kinds :
                /\ paths[last.year][k] # last.pre[last.year][k]
                     => /\ ~last.pre[last.year][k].some /\ last.opts[k].some
                        /\ paths[last.year][k] = SomeP(RealRaw(last.opts[k]))
                        /\ IsDir(CurFS, RealRaw(last.opts[k]))
                /\ Agrees(k)
                     => /\ ~last.acted[k]
                        /\ last.mem[last.year][k] = last.pre[last.year][k]
                        /\ paths[last.year][k] = last.pre[last.year][k]
           /\ (\A k \in Kinds : Agrees(k))
                => last.madeDirs \subseteq Prefixes(ConfigImplementation(paths, last.year))

\* C9's case: the input path is given through the symbolic link, nothing was
\* configured, and the link's target is stored.
C9_Witness ==
    /\ last.op = "init_year" /\ last.res = "ok"
    /\ last.opts.input_files = RawPath(FALSE, <<"..", "l">>)
    /\ ~last.pre[last.year].input_files.some
    /\ paths[last.year].input_files = SomeP(SymTarget)

\* C10: a successful init-year asks for an ignore line for the input directory
\* exactly when that directory lies strictly below the implementation
\* directory.
C10_EntryIffStrictSubdir ==
    (last.op = "init_year" /\ last.res = "ok")
        => (last.entry <=>
              /\ IsPrefix(ConfigImplementation(paths, last.year),
                          ConfigInputFiles(paths, last.year))
              /\ ConfigImplementation(paths, last.year) # ConfigInputFiles(paths, last.year))

\* C11: after a successful init-year that began with no implementation
\* directory, whatever the path options, the implementation directory holds the
\* default manifest and an ignore file with the line /target/; and an init for
\* the year that follows it does not fail with NoCargoToml.
C11_AbsentGetsWorkspace ==
    /\ (last.op = "init_year" /\ last.res = "ok" /\ last.absent)
         => LET impl == ConfigImplementation(paths, last.year) IN
            /\ IsFile(CurFS, impl \o <<"Cargo.toml">>)
            /\ files[Real(impl \o <<"Cargo.toml">>)] = Toml(DefaultManifest)
            /\ Occurrences(CurFS, impl \o <<".gitignore">>, TargetLine) >= 1
    /\ (last.op = "init" /\ last.afterAbsent) => last.res # "NoCargoToml"

\* C12: an init-year that gives, for a kind, the desired path that the
\* successful init-year just before it accepted and stored for that kind
\* finds no conflict for the kind, takes no action for it and leaves its stored
\* path as it was; when every path it gives is such a path, it does not fail
\* with ConfigCliConflict.
C12_ReassertionIdempotent ==
    (last.op = "init_year")
        => /\ \A k \in Kinds :
                last.again[k]
                  => /\ ~Conflicts(k)
                     /\ ~last.acted[k]
                     /\ paths[last.year][k] = last.pre[last.year][k]
           /\ ((\E k \in Kinds : last.again[k])
               /\ (\A k \in Kinds : last.opts[k].some => last.again[k]))
                => last.res # "ConfigCliConflict"

====
